---------------------------- MODULE Spec2Model ----------------------------
(***************************************************************************)
(* Model of the Power BI data collector: src/api.collector.py (the "flat"  *)
(* generation, JSON output) and src/api_collector.py (the "envelope"       *)
(* generation, CSV output).  Both files hold the same pipeline             *)
(*     build_url -> fetch_data -> save_data,  driven by main               *)
(* and differ in how fetch_data unwraps the body and how save_data names   *)
(* its file.  The variable `variant` says which file is running.           *)
(*                                                                         *)
(* Text is modelled as a sequence of one-character strings, so that        *)
(* quoting, cleaning, sanitizing and path splitting are computed character *)
(* by character, as the code does.                                         *)
(***************************************************************************)
EXTENDS Integers, Sequences, FiniteSets, TLC

(***************************************************************************)
(* Bounds of the model.                                                    *)
(***************************************************************************)
\* MAX_RETRIES is 0 in both files; the retry loop is written for any value,
\* and the model runs it for every value 0..MaxRetriesBound.
MaxRetriesBound == 2
\* build_url is run on every ordered mapping of at most MaxPairs parameters
\* drawn from ParamKeys and ParamValues.
MaxPairs == 2
\* clean_string is run on every text of at most MaxTextLen characters drawn
\* from CleanAlphabet.
MaxTextLen == 5

(***************************************************************************)
(* Characters.  Ascii is the printable ASCII range 32..126 in code order;   *)
(* the grave accent (code 96) is written "<grave>".                        *)
(***************************************************************************)
Ascii ==
    << " ","!","\"","#","$","%","&","'","(",")","*","+",",","-",".","/",
       "0","1","2","3","4","5","6","7","8","9",":",";","<","=",">","?",
       "@","A","B","C","D","E","F","G","H","I","J","K","L","M","N","O",
       "P","Q","R","S","T","U","V","W","X","Y","Z","[","\\","]","^","_",
       "<grave>","a","b","c","d","e","f","g","h","i","j","k","l","m","n","o",
       "p","q","r","s","t","u","v","w","x","y","z","{","|","}","~" >>

Ord(c) ==
    IF c = "\t" THEN 9
    ELSE IF c = "\n" THEN 10
    ELSE IF c = "\r" THEN 13
    ELSE 31 + (CHOOSE k \in 1..Len(Ascii) : Ascii[k] = c)

HasChr(n) == n \in {9, 10, 13} \/ (n >= 32 /\ n <= 126)

Chr(n) ==
    IF n = 9 THEN "\t"
    ELSE IF n = 10 THEN "\n"
    ELSE IF n = 13 THEN "\r"
    ELSE Ascii[n - 31]

HexDigits == <<"0","1","2","3","4","5","6","7","8","9","A","B","C","D","E","F">>

RECURSIVE Join(_, _)
\* sep.join(parts)
Join(parts, sep) ==
    IF parts = <<>> THEN <<>>
    ELSE IF Len(parts) = 1 THEN parts[1]
    ELSE parts[1] \o sep \o Join(Tail(parts), sep)

RECURSIVE Split(_, _)
\* s.split(sep) for a one-character separator: always at least one piece
Split(s, sep) ==
    IF \A k \in 1..Len(s) : s[k] # sep THEN <<s>>
    ELSE LET p == CHOOSE k \in 1..Len(s) :
                      s[k] = sep /\ \A j \in 1..(k - 1) : s[j] # sep
         IN  <<SubSeq(s, 1, p - 1)>> \o Split(SubSeq(s, p + 1, Len(s)), sep)

(***************************************************************************)
(* Query Builder: urllib.parse.quote and build_url.                        *)
(***************************************************************************)
Letters ==
    {"A","B","C","D","E","F","G","H","I","J","K","L","M","N","O","P","Q","R",
     "S","T","U","V","W","X","Y","Z","a","b","c","d","e","f","g","h","i","j",
     "k","l","m","n","o","p","q","r","s","t","u","v","w","x","y","z"}

Digits == {"0","1","2","3","4","5","6","7","8","9"}

\* quote(string) with its default safe="/": letters, digits and _ . - ~ are
\* never quoted, and neither is "/".
QuoteSafe == Letters \cup Digits \cup {"_", ".", "-", "~"} \cup {"/"}

\* "%XX", upper-case hexadecimal of the character's code
PercentEncode(c) ==
    <<"%", HexDigits[(Ord(c) \div 16) + 1], HexDigits[(Ord(c) % 16) + 1]>>

\* A mutation of quote: "=" is left as it is.
RECURSIVE quoteKeepingEquals(_)
quoteKeepingEquals(s) ==
    IF s = <<>> THEN <<>>
    ELSE (IF Head(s) \in QuoteSafe \cup {"="} THEN <<Head(s)>>
          ELSE PercentEncode(Head(s)))
         \o quoteKeepingEquals(Tail(s))

RECURSIVE quote(_)
\* urllib.parse.quote(str(value))
quote(s) ==
    IF s = <<>> THEN <<>>
    ELSE (IF Head(s) \in QuoteSafe THEN <<Head(s)>> ELSE PercentEncode(Head(s)))
         \o quote(Tail(s))

RECURSIVE ParamParts(_)
\* the loop of build_url: one "key=encoded_value" per item, in items() order
ParamParts(params) ==
    IF params = <<>> THEN <<>>
    ELSE <<params[1][1] \o <<"=">> \o quote(params[1][2])>>
         \o ParamParts(Tail(params))

\* build_url(endpoint, params), with the module-level BASE_URL passed as
\* `base`.  params is the ordered mapping, a sequence of <<key, value>>.
build_url(base, endpoint, params) ==
    base \o endpoint \o <<"?">> \o Join(ParamParts(params), <<"&">>)

(***************************************************************************)
(* The reading side of the round trip: percent-decoding                    *)
(* (urllib.parse.unquote) and splitting.                                   *)
(***************************************************************************)
IsHex(c) == c \in Digits \cup {"A","B","C","D","E","F","a","b","c","d","e","f"}

HexVal(c) ==
    IF c \in Digits THEN Ord(c) - 48
    ELSE IF c \in {"A","B","C","D","E","F"} THEN Ord(c) - 55
    ELSE Ord(c) - 87

RECURSIVE unquote(_)
\* "%XX" with two hexadecimal digits becomes the character of that code; any
\* other "%" stays.  Codes outside the modelled characters stay undecoded.
unquote(s) ==
    IF s = <<>> THEN <<>>
    ELSE IF /\ Head(s) = "%"
            /\ Len(s) >= 3
            /\ IsHex(s[2]) /\ IsHex(s[3])
            /\ HasChr(16 * HexVal(s[2]) + HexVal(s[3]))
         THEN <<Chr(16 * HexVal(s[2]) + HexVal(s[3]))>>
              \o unquote(SubSeq(s, 4, Len(s)))
         ELSE <<Head(s)>> \o unquote(Tail(s))

\* the part of a URL after its first "?"
QueryString(url) ==
    LET p == CHOOSE k \in 1..Len(url) :
                 url[k] = "?" /\ \A j \in 1..(k - 1) : url[j] # "?"
    IN  SubSeq(url, p + 1, Len(url))

\* every piece of `pieces` split on sep
SplitEach(pieces, sep) == [k \in 1..Len(pieces) |-> Split(pieces[k], sep)]

(***************************************************************************)
(* Normalizer: sanitize_filename, clean_string.                            *)
(***************************************************************************)
\* the character class of sanitize_filename's pattern
UnsafeFileChars == {"\\", "/", "*", "?", ":", "\"", "<", ">", "|"}

\* re.sub(r'[\\/*?:"<>|]', "_", name)
sanitize_filename(name) ==
    [k \in 1..Len(name) |-> IF name[k] \in UnsafeFileChars THEN "_" ELSE name[k]]

\* what \s and strip() take as whitespace, among the modelled characters
Whitespace == {" ", "\t", "\n", "\r"}

RECURSIVE ReplaceCRLF(_)
\* value.replace('\r\n', ' ')
ReplaceCRLF(s) ==
    IF s = <<>> THEN <<>>
    ELSE IF Len(s) >= 2 /\ s[1] = "\r" /\ s[2] = "\n"
         THEN <<" ">> \o ReplaceCRLF(SubSeq(s, 3, Len(s)))
         ELSE <<Head(s)>> \o ReplaceCRLF(Tail(s))

\* value.replace(c, ' ') for a single character c
ReplaceChar(s, c) == [k \in 1..Len(s) |-> IF s[k] = c THEN " " ELSE s[k]]

RECURSIVE CollapsePairs(_)
\* A mutation of the collapse: value.replace('  ', ' '), which halves a run
\* of spaces instead of collapsing it.
CollapsePairs(s) ==
    IF s = <<>> THEN <<>>
    ELSE IF Len(s) >= 2 /\ s[1] = " " /\ s[2] = " "
         THEN <<" ">> \o CollapsePairs(SubSeq(s, 3, Len(s)))
         ELSE <<Head(s)>> \o CollapsePairs(Tail(s))

RECURSIVE CollapseWhitespace(_)
\* re.sub(r'\s+', ' ', value): each maximal run of whitespace becomes " "
CollapseWhitespace(s) ==
    IF s = <<>> THEN <<>>
    ELSE IF Head(s) \in Whitespace
         THEN IF Len(s) >= 2 /\ s[2] \in Whitespace
              THEN CollapseWhitespace(Tail(s))
              ELSE <<" ">> \o CollapseWhitespace(Tail(s))
         ELSE <<Head(s)>> \o CollapseWhitespace(Tail(s))

RECURSIVE Strip(_)
\* value.strip()
Strip(s) ==
    IF s = <<>> THEN <<>>
    ELSE IF Head(s) \in Whitespace THEN Strip(Tail(s))
    ELSE IF s[Len(s)] \in Whitespace THEN Strip(SubSeq(s, 1, Len(s) - 1))
    ELSE s

\* clean_string on the text of a str value
CleanText(s) ==
    Strip(CollapseWhitespace(
        ReplaceChar(ReplaceChar(ReplaceCRLF(s), "\n"), "\r")))

(***************************************************************************)
(* Static configuration.                                                   *)
(***************************************************************************)
\* The "name" of each QUERY_CONFIG entry, in declaration order (the same ten
\* names, in the same order, in both files).
QUERY_NAMES == <<
    \* Transacciones de materiales
    <<"T","r","a","n","s","a","c","c","i","o","n","e","s"," ","d","e"," ","m","a","t","e","r","i","a","l","e","s">>,
    \* Conciliacion de inventario
    <<"C","o","n","c","i","l","i","a","c","i","o","n"," ","d","e"," ","i","n","v","e","n","t","a","r","i","o">>,
    \* Inventario de materiales
    <<"I","n","v","e","n","t","a","r","i","o"," ","d","e"," ","m","a","t","e","r","i","a","l","e","s">>,
    \* Entregas de salida
    <<"E","n","t","r","e","g","a","s"," ","d","e"," ","s","a","l","i","d","a">>,
    \* Salida de mercancia
    <<"S","a","l","i","d","a"," ","d","e"," ","m","e","r","c","a","n","c","i","a">>,
    \* Entradas de mercancia
    <<"E","n","t","r","a","d","a","s"," ","d","e"," ","m","e","r","c","a","n","c","i","a">>,
    \* Envios entrantes
    <<"E","n","v","i","o","s"," ","e","n","t","r","a","n","t","e","s">>,
    \* Documentos OV/FR/ST
    <<"D","o","c","u","m","e","n","t","o","s"," ","O","V","/","F","R","/","S","T">>,
    \* Tareas
    <<"T","a","r","e","a","s">>,
    \* Inventario Ciclico
    <<"I","n","v","e","n","t","a","r","i","o"," ","C","i","c","l","i","c","o">>
>>

\* ENDPOINTS: query name -> endpoint path segment
ENDPOINTS ==
    (QUERY_NAMES[1] :> "System.MaterialTransactions.List.View1") @@
    (QUERY_NAMES[2] :> "Ardisa.InventoryReconciliation.List.View2") @@
    (QUERY_NAMES[3] :> "System.InventoryItems.List.View4") @@
    (QUERY_NAMES[4] :> "System.OutboundDeliveries.List.View1") @@
    (QUERY_NAMES[5] :> "System.GoodsIssues.List.View1") @@
    (QUERY_NAMES[6] :> "System.GoodsRecipts.List.View1") @@
    (QUERY_NAMES[7] :> "Ardisa.InboundDeliveries.List.View1") @@
    (QUERY_NAMES[8] :> "Ardisa.SalesOrders.List.View1") @@
    (QUERY_NAMES[9] :> "System.Tasks.List.View3") @@
    (QUERY_NAMES[10] :> "System.StockCountingItemVars.List.View1")

\* The "params" of the QUERY_CONFIG entry "Conciliacion de inventario" of
\* src/api_collector.py, in items() order.
ConciliacionParams == <<
    << <<"o","r","d","e","r","b","y">>, <<"s","n","a","p","_","d","a","t","e"," ","d","e","s","c">> >>,
    << <<"t","a","k","e">>, <<"1","0","0","0","0">> >>,
    << <<"w","h","e","r","e">>,
       <<"s","n","a","p","_","d","a","t","e"," ","="," ","c","u","r","r","e","n","t","_","d","a","t","e"," ","-"," ","1">> >>
>>

ConciliacionEndpoint ==
    <<"A","r","d","i","s","a",".","I","n","v","e","n","t","o","r","y","R","e","c","o","n","c","i","l","i","a","t","i","o","n",".","L","i","s","t",".","V","i","e","w","2">>

\* The two generations of the script.
Flat == "api.collector.py"
Envelope == "api_collector.py"

\* What the clock reads, formatted: datetime.now().isoformat() in the flat
\* generation, strftime("%Y-%m-%d %H:%M:%S") and strftime("%Y%m%d_%H%M%S") of
\* get_colombia_time() in the envelope generation.  A sample reading; the
\* model depends only on these texts being non-empty and free of "/".
IsoNow == <<"2","0","2","5","-","0","1","-","0","1","T","0","7",":","0","0",":","0","0",".","0","0","0","0","0","1">>
ColombiaNow == <<"2","0","2","5","-","0","1","-","0","1"," ","0","2",":","0","0",":","0","0">>
ColombiaFileStamp == <<"2","0","2","5","0","1","0","1","_","0","2","0","0","0","0">>

(***************************************************************************)
(* Values, records and tables.                                             *)
(*                                                                         *)
(* A cell is a JSON value as it sits in a DataFrame: text, a number, a     *)
(* nested list or mapping, or missing (NaN/None).                          *)
(***************************************************************************)
Str(s)  == [t |-> "str",  s |-> s,    n |-> 0]
Num(n)  == [t |-> "num",  s |-> <<>>, n |-> n]
Nested  == [t |-> "json", s |-> <<>>, n |-> 0]
Missing == [t |-> "null", s |-> <<>>, n |-> 0]

\* clean_string(value): only a str is changed
clean_string(value) ==
    IF value.t = "str" THEN Str(CleanText(value.s)) ELSE value

\* The DataFrame None that fetch_data returns for "no result".
None == [isNone |-> TRUE, columns |-> {}, rows |-> <<>>]

\* pd.DataFrame(records) / pd.json_normalize(records) of a list of flat
\* record objects: one row per record, one column per field observed in any
\* record, a missing field read as NaN.
DataFrame(records) ==
    LET cols == UNION {DOMAIN records[k] : k \in 1..Len(records)}
    IN  [isNone  |-> FALSE,
         columns |-> cols,
         rows    |-> [k \in 1..Len(records) |->
                        [c \in cols |-> IF c \in DOMAIN records[k]
                                        THEN records[k][c] ELSE Missing]]]

\* df[column] = value: the column is added, or overwritten when it exists
SetColumn(df, column, value) ==
    [isNone  |-> FALSE,
     columns |-> df.columns \cup {column},
     rows    |-> [k \in 1..Len(df.rows) |->
                    [c \in df.columns \cup {column} |->
                        IF c = column THEN value ELSE df.rows[k][c]]]]

\* df[column].dtype == 'object': the column holds something that is not a
\* number (an all-number column, with or without NaN, is int64/float64)
IsObjectColumn(df, column) ==
    \E k \in 1..Len(df.rows) : df.rows[k][column].t \in {"str", "json"}

\* clean_dataframe(df)
clean_dataframe(df) ==
    [isNone  |-> FALSE,
     columns |-> df.columns,
     rows    |-> [k \in 1..Len(df.rows) |->
                    [c \in df.columns |->
                        IF IsObjectColumn(df, c)
                        THEN clean_string(df.rows[k][c])
                        ELSE df.rows[k][c]]]]

len(df) == Len(df.rows)

(***************************************************************************)
(* Response bodies (RawResponse): what response.json() returns.            *)
(*   kind    "list": a top-level array of record objects, `rows`           *)
(*           "dict": a mapping                                             *)
(*           "scalar": a number, a string, true, false or null             *)
(*   truthy  of a scalar: its Python truth value                           *)
(*   error   of a dict: key absent / present with a falsy value ("", null, *)
(*           0, [], {}) / present with a truthy value                      *)
(*   message of a dict: key absent / a list (`rows`) / a truthy scalar /   *)
(*           a falsy scalar                                                *)
(*   extra   of a dict: whether it has a key besides error and message     *)
(***************************************************************************)
RecA    == [a |-> Num(1)]
RecIdV  == [id |-> Num(1), v |-> Str(<<"a", "\n", "b">>)]
RecB    == [b |-> Str(<<" ", "x", "\r", "\n", "\t", "y", " ">>)]
\* a record that already has fields named like the two metadata columns
RecMeta == [load_timestamp |-> Str(<<"o", "l", "d">>),
            metadata_fecha_consulta |-> Str(<<"o", "l", "d">>)]

RowLists == { <<>>, <<RecA>>, <<RecIdV>>, <<RecA, RecB>>, <<RecMeta, RecA>> }

ListBody(rows) ==
    [kind |-> "list", truthy |-> rows # <<>>, error |-> "absent",
     message |-> "absent", rows |-> rows, extra |-> FALSE]

DictBody(error, message, rows, extra) ==
    [kind |-> "dict",
     truthy |-> (error # "absent" \/ message # "absent" \/ extra),
     error |-> error, message |-> message, rows |-> rows, extra |-> extra]

ScalarBody(truthy) ==
    [kind |-> "scalar", truthy |-> truthy, error |-> "absent",
     message |-> "absent", rows |-> <<>>, extra |-> FALSE]

Bodies ==
    {ListBody(rows) : rows \in RowLists}
    \cup {ScalarBody(b) : b \in BOOLEAN}
    \cup {DictBody(e, "list", rows, x) :
              e \in {"absent", "empty", "nonempty"}, rows \in RowLists,
              x \in BOOLEAN}
    \cup {DictBody(e, m, <<>>, x) :
              e \in {"absent", "empty", "nonempty"},
              m \in {"absent", "truthy", "falsy"}, x \in BOOLEAN}
    \* {"message": {"a": []}} and {"message": {"a": [1]}}: the envelope
    \* holds a mapping from column names to lists of values
    \cup {DictBody("absent", "columns", rows, FALSE) :
              rows \in {<<>>, <<RecA>>}}

\* no body: the request failed, or the body did not parse
NoBody ==
    [kind |-> "none", truthy |-> FALSE, error |-> "absent",
     message |-> "absent", rows |-> <<>>, extra |-> FALSE]

\* not data
IsEmptyBody(data) == ~data.truthy

\* A mutation of the error test: it is made only when there is no envelope.
HasErrorWithoutMessage(data) ==
    data.kind = "dict" /\ data.error = "nonempty" /\ data.message = "absent"

\* isinstance(data, dict) and data.get("error")
HasError(data) == data.kind = "dict" /\ data.error = "nonempty"

\* isinstance(data, dict) and "message" in data
HasMessage(data) == data.kind = "dict" /\ data.message # "absent"

\* A mutation of the emptiness test: "message_data is None".
IsEmptyMessageNoneOnly(data) == data.message = "falsy"

\* not message_data
IsEmptyMessage(data) ==
    \/ data.message = "falsy"
    \/ data.message = "list" /\ data.rows = <<>>

\* the mapping itself as the one record json_normalize makes of it
DictAsRecord(data) ==
    [c \in (IF data.error # "absent" THEN {"error"} ELSE {})
           \cup (IF data.message = "columns" THEN {"message.a"}
                 ELSE IF data.message # "absent" THEN {"message"} ELSE {})
           \cup (IF data.extra THEN {"other"} ELSE {}) |->
        IF c = "other" THEN Num(1)
        ELSE IF c = "error"
             THEN (IF data.error = "nonempty"
                   THEN Str(<<"b", "a", "d">>) ELSE Missing)
        ELSE IF data.message \in {"list", "columns"} THEN Nested
        ELSE IF data.message = "truthy" THEN Num(5)
        ELSE Missing]

\* pd.DataFrame(message_data) of a mapping {"a": [values]}: the column a
\* with one row per value, no row for an empty list
FrameOfColumns(rows) == [isNone |-> FALSE, columns |-> {"a"}, rows |-> rows]

(***************************************************************************)
(* fetch_data: what the try block makes of a parsed body.                  *)
(* The result is [raised, df]: raised says that an exception left          *)
(* fetch_data (none of its except clauses caught it).                      *)
(***************************************************************************)
Returns(df) == [raised |-> FALSE, df |-> df]
Raises      == [raised |-> TRUE,  df |-> None]

\* src/api.collector.py: lines 133-143
ProcessBodyFlat(data) ==
    IF IsEmptyBody(data) THEN Returns(None)
    ELSE IF HasError(data) THEN Returns(None)
    ELSE IF data.kind = "scalar"
         \* pd.json_normalize of a number, a string or true raises
         \* NotImplementedError (TypeError/AttributeError in older pandas),
         \* which is neither a RequestException nor a ValueError
         THEN Raises
    ELSE LET df == IF data.kind = "list" THEN DataFrame(data.rows)
                   ELSE DataFrame(<<DictAsRecord(data)>>)
         IN  Returns(SetColumn(df, "load_timestamp", Str(IsoNow)))

\* src/api_collector.py: lines 155-180, with the except ValueError of
\* lines 189-191 for the DataFrame constructor's error
ProcessBodyEnvelope(data) ==
    IF IsEmptyBody(data) THEN Returns(None)
    ELSE IF HasError(data) THEN Returns(None)
    ELSE IF HasMessage(data)
         THEN IF IsEmptyMessage(data) THEN Returns(None)
              ELSE IF data.message = "columns"
                   THEN Returns(SetColumn(
                                   clean_dataframe(FrameOfColumns(data.rows)),
                                   "metadata_fecha_consulta",
                                   Str(ColombiaNow)))
              ELSE IF data.message # "list"
                   \* pd.DataFrame(5) raises ValueError, which is caught
                   THEN Returns(None)
              ELSE Returns(SetColumn(clean_dataframe(DataFrame(data.rows)),
                                     "metadata_fecha_consulta",
                                     Str(ColombiaNow)))
    ELSE Returns(None)

ProcessBody(v, data) ==
    IF v = Flat THEN ProcessBodyFlat(data) ELSE ProcessBodyEnvelope(data)

\* A mutation of the retry test: the last attempt is followed by a sleep too.
ShouldRetryAlways(att, maxRetries) == att <= maxRetries

\* if attempt < MAX_RETRIES
ShouldRetry(att, maxRetries) == att < maxRetries

(***************************************************************************)
(* save_data: the path it writes.                                          *)
(***************************************************************************)
DataDir == <<"d", "a", "t", "a">>

\* os.path.dirname(path): what precedes the last "/"
Dirname(path) ==
    IF \A k \in 1..Len(path) : path[k] # "/" THEN <<>>
    ELSE LET p == CHOOSE k \in 1..Len(path) :
                      path[k] = "/" /\ \A j \in (k + 1)..Len(path) : path[j] # "/"
         IN  SubSeq(path, 1, p - 1)

\* src/api.collector.py line 158:  f"data/{name}.json"
SavePathFlat(name) == DataDir \o <<"/">> \o name \o <<".", "j", "s", "o", "n">>

\* src/api_collector.py lines 204-206
SavePathEnvelope(name) ==
    DataDir \o <<"/">> \o sanitize_filename(name) \o <<"_">>
        \o ColombiaFileStamp \o <<".", "c", "s", "v">>

SavePath(v, name) ==
    IF v = Flat THEN SavePathFlat(name) ELSE SavePathEnvelope(name)

(***************************************************************************)
(* State.                                                                  *)
(***************************************************************************)
VARIABLES
    variant,        \* which file runs: Flat or Envelope
    MAX_RETRIES,    \* the module-level MAX_RETRIES
    TOKEN,          \* os.getenv("API_TOKEN"): [isNone, text]
    BASE_URL,       \* os.getenv("API_BASE_URL"): [isNone, text]
    jsonErrorIsRequestException,
                    \* whether the JSON error raised by response.json() is a
                    \* requests.exceptions.RequestException as well as a
                    \* ValueError (requests >= 2.27) or a ValueError only
    dirs,           \* the directories that exist
    pc,             \* where main is
    i,              \* how many QUERY_CONFIG entries the for loop has taken
    attempt,        \* fetch_data's loop variable
    gets,           \* calls of requests.get made by this fetch_data call
    requestSent,    \* whether this run has put a GET request on the wire
    retrySleeps,    \* time.sleep(RETRY_DELAY) calls of this fetch_data call
    transportFails, \* GETs of this call that raised (transport, HTTP status)
    jsonFails,      \* GETs of this call whose body did not parse
    data,           \* the last body parsed by this fetch_data call
    df,             \* what fetch_data returned to main
    requestSleeps,  \* time.sleep(REQUEST_DELAY) calls of main
    written,        \* artifacts written by this run
    opened,         \* the open-for-writing of this iteration's save_data
    params,         \* build_url: the ordered parameter mapping
    url,            \* build_url: its result
    upc,            \* build_url: "input", then "built"
    ctable,         \* clean_dataframe: the table given
    cleaned,        \* clean_dataframe(ctable)
    recleaned,      \* clean_dataframe(cleaned)
    cpc             \* clean_dataframe: "input", "once", then "twice"

envVars == <<variant, MAX_RETRIES, TOKEN, BASE_URL, jsonErrorIsRequestException>>
fetchVars == <<attempt, gets, retrySleeps, transportFails, jsonFails, data, df>>
urlVars == <<params, url, upc>>
cleanVars == <<ctable, cleaned, recleaned, cpc>>
vars == <<variant, MAX_RETRIES, TOKEN, BASE_URL, jsonErrorIsRequestException,
          dirs, pc, i, attempt, gets, requestSent, retrySleeps, transportFails, jsonFails,
          data, df, requestSleeps, written, opened, params, url, upc,
          ctable, cleaned, recleaned, cpc>>

EnvNone == [isNone |-> TRUE, text |-> <<>>]
EnvSet(text) == [isNone |-> FALSE, text |-> text]

SampleToken == <<"s", "e", "c", "r", "e", "t">>
SampleBaseUrl == <<"h", "t", "t", "p", "s", ":", "/", "/", "h", "/">>

\* f"{BASE_URL}": None formats as "None"
BaseUrlText(b) == IF b.isNone THEN <<"N", "o", "n", "e">> ELSE b.text

NoOpen ==
    [attempted |-> FALSE, path |-> <<>>, parentEnsured |-> FALSE,
     ok |-> FALSE, table |-> None]

NQueries == Len(QUERY_NAMES)

\* module level, lines 9-16: the environment is read, nothing is checked
EnvInit ==
    /\ variant \in {Flat, Envelope}
    /\ MAX_RETRIES \in 0..MaxRetriesBound
    /\ TOKEN \in {EnvNone, EnvSet(SampleToken)}
    /\ BASE_URL \in {EnvNone, EnvSet(SampleBaseUrl)}
    /\ jsonErrorIsRequestException \in BOOLEAN

IdleClean ==
    /\ ctable = None
    /\ cleaned = None
    /\ recleaned = None
    /\ cpc = "off"

IdleFetch ==
    /\ attempt = 0
    /\ gets = 0
    /\ retrySleeps = 0
    /\ transportFails = 0
    /\ jsonFails = 0
    /\ data = NoBody
    /\ df = None

Init ==
    /\ EnvInit
    /\ dirs \in {{}, {DataDir}}
    /\ pc = "start"
    /\ i = 0
    /\ IdleFetch
    /\ requestSent = FALSE
    /\ requestSleeps = 0
    /\ written = 0
    /\ opened = NoOpen
    /\ params = <<>>
    /\ url = <<>>
    /\ upc = "off"
    /\ IdleClean

(***************************************************************************)
(* main.                                                                   *)
(***************************************************************************)
\* main, up to the for loop: a banner and start_time
Start ==
    /\ pc = "start"
    /\ pc' = "loop"
    /\ UNCHANGED <<envVars, dirs, i, fetchVars, requestSent, requestSleeps,
                   written, opened, urlVars,
                   cleanVars>>

\* A mutation of the loop: every second entry of QUERY_CONFIG is passed over.
LoopNextSkipping ==
    /\ pc = "loop"
    /\ i < NQueries
    /\ i' = IF i + 2 <= NQueries THEN i + 2 ELSE i + 1
    /\ pc' = IF QUERY_NAMES[i'] \in DOMAIN ENDPOINTS
             THEN "fetch"
             ELSE "crashed"
    /\ attempt' = 0
    /\ gets' = 0
    /\ retrySleeps' = 0
    /\ transportFails' = 0
    /\ jsonFails' = 0
    /\ data' = NoBody
    /\ df' = None
    /\ opened' = NoOpen
    /\ UNCHANGED <<envVars, dirs, requestSent, requestSleeps, written, urlVars,
                   cleanVars>>

\* for query in QUERY_CONFIG: the next entry; ENDPOINTS[name]; build_url;
\* the call of fetch_data up to its first attempt
LoopNext ==
    /\ pc = "loop"
    /\ i < NQueries
    /\ i' = i + 1
    /\ pc' = IF QUERY_NAMES[i + 1] \in DOMAIN ENDPOINTS
             THEN "fetch"
             ELSE "crashed"      \* KeyError out of main
    /\ attempt' = 0
    /\ gets' = 0
    /\ retrySleeps' = 0
    /\ transportFails' = 0
    /\ jsonFails' = 0
    /\ data' = NoBody
    /\ df' = None
    /\ opened' = NoOpen
    /\ UNCHANGED <<envVars, dirs, requestSent, requestSleeps, written, urlVars,
                   cleanVars>>

\* the loop is exhausted: the duration report
Finish ==
    /\ pc = "loop"
    /\ i = NQueries
    /\ pc' = "done"
    /\ UNCHANGED <<envVars, dirs, i, fetchVars, requestSent, requestSleeps,
                   written, opened, urlVars,
                   cleanVars>>

(***************************************************************************)
(* fetch_data: one attempt of its loop per action.                         *)
(***************************************************************************)
\* except requests.exceptions.RequestException: sleep and go round the loop
\* if attempts remain, else return None.  (When the loop runs out without a
\* return, the function returns None as well.)
OnRequestException ==
    IF ShouldRetry(attempt, MAX_RETRIES)
    THEN /\ retrySleeps' = retrySleeps + 1
         /\ attempt' = attempt + 1
         /\ pc' = IF attempt + 1 <= MAX_RETRIES THEN "fetch" ELSE "returned"
         /\ df' = None
    ELSE /\ retrySleeps' = retrySleeps
         /\ attempt' = attempt
         /\ pc' = "returned"
         /\ df' = None

\* except ValueError (and KeyError): return None
OnValueError ==
    /\ retrySleeps' = retrySleeps
    /\ attempt' = attempt
    /\ pc' = "returned"
    /\ df' = None

\* requests.get or raise_for_status raises: no connection, a timeout, an
\* HTTP error status; with BASE_URL unset the URL has no scheme and
\* requests.get raises MissingSchema, a RequestException too
GetRaises ==
    /\ pc = "fetch"
    /\ gets' = gets + 1
    /\ requestSent' = (requestSent \/ ~BASE_URL.isNone)
    /\ transportFails' = transportFails + 1
    /\ data' = NoBody
    /\ OnRequestException
    /\ UNCHANGED <<envVars, dirs, i, jsonFails, requestSleeps, written,
                   opened, urlVars,
                   cleanVars>>

\* the response arrives with a good status and response.json() fails
GetBadJson ==
    /\ pc = "fetch"
    /\ ~BASE_URL.isNone
    /\ gets' = gets + 1
    /\ requestSent' = TRUE
    /\ jsonFails' = jsonFails + 1
    /\ data' = NoBody
    /\ IF jsonErrorIsRequestException
       THEN OnRequestException    \* the first except clause that matches
       ELSE OnValueError
    /\ UNCHANGED <<envVars, dirs, i, transportFails, requestSleeps, written,
                   opened, urlVars,
                   cleanVars>>

\* the response arrives with a good status and a body that parses
GetBody ==
    /\ pc = "fetch"
    /\ ~BASE_URL.isNone
    /\ \E body \in Bodies :
          LET r == ProcessBody(variant, body)
          IN  /\ gets' = gets + 1
              /\ requestSent' = TRUE
              /\ data' = body
              /\ df' = r.df
              /\ pc' = IF r.raised THEN "crashed" ELSE "returned"
    /\ UNCHANGED <<envVars, dirs, i, attempt, retrySleeps, transportFails,
                   jsonFails, requestSleeps, written, opened, urlVars,
                   cleanVars>>

(***************************************************************************)
(* main, after fetch_data has returned.                                    *)
(***************************************************************************)
\* what os.makedirs("data", exist_ok=True) created or found present
EnsuredDirs == {DataDir}

\* if df is not None: save_data(df, name).  An exception of the write (the
\* directory of the path does not exist, the disk is full, ...) is caught
\* nowhere and leaves main.
SaveData ==
    /\ pc = "returned"
    /\ ~df.isNone
    /\ LET path == SavePath(variant, QUERY_NAMES[i])
           nowDirs == dirs \cup EnsuredDirs
       IN  /\ dirs' = nowDirs
           /\ \E ioError \in BOOLEAN :
                 LET ok == Dirname(path) \in nowDirs /\ ~ioError
                 IN  /\ opened' = [attempted |-> TRUE,
                                   path |-> path,
                                   parentEnsured |-> Dirname(path) \in EnsuredDirs,
                                   ok |-> ok,
                                   table |-> IF ok THEN df ELSE None]
                     /\ written' = IF ok THEN written + 1 ELSE written
                     /\ pc' = IF ok THEN "sleep" ELSE "crashed"
    /\ UNCHANGED <<envVars, i, fetchVars, requestSent, requestSleeps, urlVars,
                   cleanVars>>

\* A mutation of the else branch: the delay is inside the if branch, so a
\* query without data is followed by the next one at once.
NoDataNoDelay ==
    /\ pc = "returned"
    /\ df.isNone
    /\ pc' = "loop"
    /\ UNCHANGED <<envVars, dirs, i, fetchVars, requestSent, requestSleeps,
                   written, opened, urlVars,
                   cleanVars>>

\* else: print "No se obtuvieron datos"
NoData ==
    /\ pc = "returned"
    /\ df.isNone
    /\ pc' = "sleep"
    /\ UNCHANGED <<envVars, dirs, i, fetchVars, requestSent, requestSleeps,
                   written, opened, urlVars,
                   cleanVars>>

\* time.sleep(REQUEST_DELAY), the last statement of the loop body
RequestDelay ==
    /\ pc = "sleep"
    /\ requestSleeps' = requestSleeps + 1
    /\ pc' = "loop"
    \* the iteration is over: nothing of it is read again
    /\ attempt' = 0
    /\ gets' = 0
    /\ retrySleeps' = 0
    /\ transportFails' = 0
    /\ jsonFails' = 0
    /\ data' = NoBody
    /\ df' = None
    /\ opened' = NoOpen
    /\ UNCHANGED <<envVars, dirs, i, requestSent, written, urlVars,
                   cleanVars>>

Next ==
    \/ Start
    \/ LoopNext
    \/ Finish
    \/ GetRaises
    \/ GetBadJson
    \/ GetBody
    \/ SaveData
    \/ NoData
    \/ RequestDelay

Spec == Init /\ [][Next]_vars

(***************************************************************************)
(* build_url on its own: every bounded ordered mapping, and one configured *)
(* mapping, is built into a URL.                                           *)
(***************************************************************************)
\* keys: plain ones, and ones holding "=", "&" or a percent escape
ParamKeys ==
    { <<"k">>, <<"t", "o">>, <<"a", "=">>, <<"&", "b">>, <<"%", "2", "6">> }

\* values: empty, plain, and ones holding " ", "&", "=", "/", "%"
ParamValues ==
    { <<>>, <<"a">>, <<"a", " ", "b">>, <<"a", "&", "b">>, <<"a", "=", "b">>,
      <<"1", "/", "2">>, <<"%">>, <<"%", "2", "6">>, <<"5", "%", " ", "x">>,
      <<"&", "=">> }

ParamPairs == {<<k, v>> : k \in ParamKeys, v \in ParamValues}

\* an ordered mapping: a sequence of pairs with pairwise different keys
IsMapping(m) == \A x, y \in 1..Len(m) : x # y => m[x][1] # m[y][1]

ParamMappings ==
    {m \in UNION {[1..n -> ParamPairs] : n \in 0..MaxPairs} : IsMapping(m)}

UrlInit ==
    /\ variant = Envelope
    /\ MAX_RETRIES = 0
    /\ TOKEN = EnvSet(SampleToken)
    /\ BASE_URL \in {EnvNone, EnvSet(SampleBaseUrl)}
    /\ jsonErrorIsRequestException = FALSE
    /\ dirs = {}
    /\ pc = "off"
    /\ i = 0
    /\ IdleFetch
    /\ requestSent = FALSE
    /\ requestSleeps = 0
    /\ written = 0
    /\ opened = NoOpen
    /\ params \in ParamMappings \cup {ConciliacionParams}
    /\ url = <<>>
    /\ upc = "input"
    /\ IdleClean

BuildUrl ==
    /\ upc = "input"
    /\ url' = build_url(BaseUrlText(BASE_URL), ConciliacionEndpoint, params)
    /\ upc' = "built"
    /\ UNCHANGED <<envVars, dirs, pc, i, fetchVars, requestSent, requestSleeps,
                   written, opened, params, cleanVars>>

UrlNext == BuildUrl

SpecUrl == UrlInit /\ [][UrlNext]_vars

----------------------------------------------------------------------------
\* clean_dataframe on its own: every one-row table whose first cell is a
\* text over CleanAlphabet and whose second cell is a number, a missing
\* value, a nested value or a text, cleaned once and then cleaned again.

CleanAlphabet == {"a", " ", "\n", "\r", "\t"}

CleanTexts == UNION {[1..n -> CleanAlphabet] : n \in 0..MaxTextLen}

OtherCells == {Num(1), Missing, Nested, Str(<<" ", "x", "\r", "\n">>)}

CleanInit ==
    /\ variant = Envelope
    /\ MAX_RETRIES = 0
    /\ TOKEN = EnvSet(SampleToken)
    /\ BASE_URL = EnvSet(SampleBaseUrl)
    /\ jsonErrorIsRequestException = FALSE
    /\ dirs = {}
    /\ pc = "off"
    /\ i = 0
    /\ IdleFetch
    /\ requestSent = FALSE
    /\ requestSleeps = 0
    /\ written = 0
    /\ opened = NoOpen
    /\ params = <<>>
    /\ url = <<>>
    /\ upc = "off"
    /\ \E s \in CleanTexts, other \in OtherCells :
           ctable = DataFrame(<<[v |-> Str(s), n |-> other]>>)
    /\ cleaned = None
    /\ recleaned = None
    /\ cpc = "input"

CleanOnce ==
    /\ cpc = "input"
    /\ cleaned' = clean_dataframe(ctable)
    /\ cpc' = "once"
    /\ UNCHANGED <<envVars, dirs, pc, i, fetchVars, requestSent, requestSleeps,
                   written, opened, urlVars, ctable, recleaned>>

CleanAgain ==
    /\ cpc = "once"
    /\ recleaned' = clean_dataframe(cleaned)
    /\ cpc' = "twice"
    /\ UNCHANGED <<envVars, dirs, pc, i, fetchVars, requestSent, requestSleeps,
                   written, opened, urlVars, ctable, cleaned>>

CleanNext == CleanOnce \/ CleanAgain

SpecClean == CleanInit /\ [][CleanNext]_vars

(***************************************************************************)
(* Properties.                                                             *)
(***************************************************************************)
\* the fields observed in a list of records
Fields(records) == UNION {DOMAIN records[k] : k \in 1..Len(records)}

\* the metadata timestamp column of each generation
MetaColumn(v) ==
    IF v = Flat THEN "load_timestamp" ELSE "metadata_fecha_consulta"

\* a valid populated response of each generation: a non-empty list of
\* records, bare (flat) or under "message" with no error (envelope)
ValidPopulated(v, body) ==
    IF v = Flat
    THEN body.kind = "list" /\ body.rows # <<>>
    ELSE /\ body.kind = "dict"
         /\ body.error # "nonempty"
         /\ body.message = "list"
         /\ body.rows # <<>>

\* C1: one query's failure never aborts the batch: whatever a query's
\* outcome (failed request, unparseable body, a body of any shape, a failed
\* write), main goes on to the later queries and to its duration report; no
\* exception leaves main.
C1_BatchNeverAborts == pc # "crashed"

\* C2: bounded retry.  When fetch_data has returned after k transport
\* failures followed by a valid populated response, it made k + 1 GETs,
\* slept RETRY_DELAY k times (k <= MAX_RETRIES) and returned a populated
\* table; when every attempt failed in transport, it made MAX_RETRIES + 1
\* GETs, slept MAX_RETRIES times and returned None.
C2_BoundedRetry ==
    (pc = "returned" /\ jsonFails = 0) =>
        /\ ValidPopulated(variant, data) =>
              /\ transportFails <= MAX_RETRIES
              /\ gets = transportFails + 1
              /\ retrySleeps = transportFails
              /\ ~df.isNone
              /\ len(df) >= 1
        /\ data = NoBody =>
              /\ transportFails = MAX_RETRIES + 1
              /\ gets = MAX_RETRIES + 1
              /\ retrySleeps = MAX_RETRIES
              /\ df.isNone

\* C2, reached: MAX_RETRIES = 2, two failures then a populated response: a
\* populated table after three GETs and two sleeps.
C2_Witness ==
    /\ pc = "returned"
    /\ MAX_RETRIES = 2
    /\ transportFails = 2
    /\ jsonFails = 0
    /\ ValidPopulated(variant, data)
    /\ gets = 3
    /\ retrySleeps = 2
    /\ ~df.isNone

\* C3: a body that does not parse as JSON is not retried: once
\* response.json() has failed, fetch_data has returned None with no further
\* GET and no RETRY_DELAY sleep (its GETs are the earlier transport failures
\* and this one, its sleeps those after the transport failures).
C3_BadJsonNotRetried ==
    jsonFails > 0 =>
        /\ pc # "fetch"
        /\ df.isNone
        /\ jsonFails = 1
        /\ gets = transportFails + 1
        /\ retrySleeps = transportFails

\* C4: configuration errors are fatal before any network call: with the
\* token or the base URL absent from the environment, no GET request is
\* ever issued.
C4_NoRequestWithoutConfiguration ==
    (TOKEN.isNone \/ BASE_URL.isNone) => ~requestSent

\* C5, as amended: in the envelope generation, a fetched {"message": []}
\* gives None, and a fetched {"message": [r1..rn]}, n >= 1, with no (or an
\* empty) error field gives a table of n rows whose columns are the fields
\* observed in the records together with metadata_fecha_consulta.
C5_EnvelopeHandling ==
    (/\ pc = "returned"
     /\ variant = Envelope
     /\ data.kind = "dict"
     /\ data.message = "list"
     /\ data.error # "nonempty") =>
        IF data.rows = <<>>
        THEN df.isNone
        ELSE /\ ~df.isNone
             /\ len(df) = Len(data.rows)
             /\ df.columns = Fields(data.rows) \cup {MetaColumn(Envelope)}
             /\ \A k \in 1..len(df) :
                    df.rows[k][MetaColumn(Envelope)] = Str(ColombiaNow)

\* C5, reached: {"message": [{"a": 1}]} gave a one-row table with the
\* columns a and metadata_fecha_consulta.
C5_Witness ==
    /\ pc = "returned"
    /\ variant = Envelope
    /\ data = DictBody("absent", "list", <<RecA>>, FALSE)
    /\ ~df.isNone
    /\ len(df) = 1
    /\ df.columns = {"a", "metadata_fecha_consulta"}

\* C5 as stated, of fetch_data in both files: {"message": []} gives None,
\* and {"message": [r1..rn]} with no error field gives n rows with the
\* records' fields plus the metadata column.
C5_EnvelopeHandlingBothFiles ==
    (/\ pc \in {"returned", "crashed"}
     /\ data.kind = "dict"
     /\ data.message = "list"
     /\ data.error = "absent") =>
        IF data.rows = <<>>
        THEN df.isNone
        ELSE /\ ~df.isNone
             /\ len(df) = Len(data.rows)
             /\ df.columns = Fields(data.rows) \cup {MetaColumn(variant)}

\* C6: end to end on a bare list: when the endpoint has answered
\* [{"id": 1, "v": "a\nb"}] and the query's processing is over, an artifact
\* was written with exactly one row, v = "a b" and a non-empty metadata
\* timestamp.
C6_BareListEndToEnd ==
    (pc = "sleep" /\ data = ListBody(<<RecIdV>>)) =>
        /\ opened.attempted
        /\ opened.ok
        /\ len(opened.table) = 1
        /\ "v" \in opened.table.columns
        /\ opened.table.rows[1]["v"] = Str(<<"a", " ", "b">>)
        /\ MetaColumn(variant) \in opened.table.columns
        /\ opened.table.rows[1][MetaColumn(variant)].t = "str"
        /\ opened.table.rows[1][MetaColumn(variant)].s # <<>>

\* C7: the inter-request delay.  While query number i is being fetched or
\* processed, exactly i - 1 REQUEST_DELAY sleeps have been made, one after
\* each earlier query whatever its outcome; between two queries' GETs lies
\* exactly one such sleep.
C7_DelayBetweenQueries ==
    /\ pc \in {"fetch", "returned", "sleep"} => requestSleeps = i - 1
    /\ pc \in {"loop", "done"} => requestSleeps = i

\* C7, reached: the third query is being fetched after two delays, one
\* earlier query having been saved and the other having given no result.
C7_Witness ==
    /\ pc = "fetch"
    /\ i = 3
    /\ written = 1
    /\ requestSleeps = 2

\* C8: whenever save_data opens its output path, the directory that
\* directly contains the path was created or found present by save_data.
C8_ParentDirectoryEnsured == opened.attempted => opened.parentEnsured

\* C9: an upstream-reported error is not retried and comes before the
\* envelope: a fetched mapping with a non-empty error field, with or
\* without a message field, ends fetch_data with None, no table, no further
\* GET and no sleep after it (one GET and no sleep when it is the first
\* response).
C9_ErrorFieldNotRetried ==
    (data.kind = "dict" /\ data.error = "nonempty") =>
        /\ pc \in {"returned", "sleep"}
        /\ df.isNone
        /\ ~opened.attempted
        /\ gets = transportFails + jsonFails + 1
        /\ retrySleeps = gets - 1
        /\ (transportFails + jsonFails = 0 => gets = 1 /\ retrySleeps = 0)

\* C9, reached: with MAX_RETRIES = 2, a first response carrying both an
\* error and a populated message ended fetch_data after one GET.
C9_Witness ==
    /\ pc = "returned"
    /\ MAX_RETRIES = 2
    /\ data.kind = "dict"
    /\ data.error = "nonempty"
    /\ data.message = "list"
    /\ data.rows # <<>>
    /\ gets = 1
    /\ retrySleeps = 0
    /\ df.isNone

\* the pairs read back by decoding first: percent-decode the query string,
\* split on "&", then each piece on "="
DecodeThenSplit(u) ==
    LET q == unquote(QueryString(u))
    IN  IF q = <<>> THEN <<>> ELSE SplitEach(Split(q, "&"), "=")

\* the pairs read back by splitting first: split the query string on "&",
\* each piece on "=", then percent-decode the value
SplitThenDecode(u) ==
    LET q == QueryString(u)
        pieces == IF q = <<>> THEN <<>> ELSE SplitEach(Split(q, "&"), "=")
    IN  [k \in 1..Len(pieces) |->
            IF Len(pieces[k]) = 2
            THEN <<pieces[k][1], unquote(pieces[k][2])>>
            ELSE pieces[k]]

\* no key holds "&" or "="
PlainKeys(m) ==
    \A k \in 1..Len(m) : \A j \in 1..Len(m[k][1]) : m[k][1][j] \notin {"&", "="}

\* C10, as amended: for every ordered mapping whose keys hold no "&" and no
\* "=", splitting the query string of build_url's output on "&", each piece
\* on "=", and then percent-decoding each value gives back the key/value
\* pairs in their order.
C10_SplitThenDecodeRoundTrip ==
    (upc = "built" /\ PlainKeys(params)) => SplitThenDecode(url) = params

\* C10, reached: a built URL of two parameters with plain keys whose values
\* hold "&" and "=".
C10_Witness ==
    /\ upc = "built"
    /\ PlainKeys(params)
    /\ Len(params) = 2
    /\ params[1][2] = <<"a", "&", "b">>
    /\ params[2][2] = <<"a", "=", "b">>
    /\ SplitThenDecode(url) = params

\* C10 as stated: percent-decoding the query string, splitting on "&" and
\* then on "=" gives back the pairs in their order.
C10_DecodeThenSplitRoundTrip ==
    upc = "built" => DecodeThenSplit(url) = params

\* the name under the data directory of a path save_data wrote: what
\* follows "data/"
FileNameUnderData(path) == SubSeq(path, Len(DataDir) + 2, Len(path))

\* sub in s (Python's  sub in s  on str)
Contains(s, sub) ==
    \E k \in 0..(Len(s) - Len(sub)) : SubSeq(s, k + 1, k + Len(sub)) = sub

DocumentosSanitized ==
    <<"D","o","c","u","m","e","n","t","o","s"," ","O","V","_","F","R","_","S","T">>

\* C11: filename sanitization.  Whenever save_data opens its output file,
\* the file name it wrote under the data directory holds none of the
\* characters \ / * ? : " < > |, and for the query "Documentos OV/FR/ST"
\* it contains "Documentos OV_FR_ST".
C11_FileNameSanitized ==
    opened.attempted =>
        /\ \A k \in 1..Len(FileNameUnderData(opened.path)) :
               FileNameUnderData(opened.path)[k] \notin UnsafeFileChars
        /\ i = 8 => Contains(FileNameUnderData(opened.path), DocumentosSanitized)


----------------------------------------------------------------------------
\* the cells of a table
Cells(t) == {t.rows[k][c] : k \in 1..Len(t.rows), c \in t.columns}

\* C12: clean is idempotent.  Cleaning a cleaned table gives the cleaned
\* table again, and clean_string(clean_string(v)) = clean_string(v) for
\* every cell v of the table given.
C12_CleanIdempotent ==
    cpc = "twice" =>
        /\ recleaned = cleaned
        /\ \A v \in Cells(ctable) :
               clean_string(clean_string(v)) = clean_string(v)

\* a table whose text held a CRLF, a tab and a run of spaces was changed by
\* the first cleaning and left alone by the second
C12_Witness ==
    /\ cpc = "twice"
    /\ ctable.rows[1].v = Str(<<"\r", "\n", "a", "\t", " ">>)
    /\ ctable.rows[1].n = Nested
    /\ cleaned.rows[1].v = Str(<<"a">>)
    /\ cleaned # ctable
    /\ recleaned = cleaned

----------------------------------------------------------------------------
\* one step of main keeps the queries in sequence
StepSequential ==
    \* the entries of QUERY_CONFIG are taken one by one, in order
    /\ i' \in {i, i + 1}
    \* the next entry is taken only between iterations
    /\ i' = i + 1 => pc = "loop"
    \* an iteration is over only when its fetch gave no table and nothing
    \* was opened, or when its table has been written
    /\ (pc' = "sleep" /\ pc # "sleep") =>
           \/ df'.isNone /\ ~opened'.attempted
           \/ ~df'.isNone /\ opened'.ok /\ opened'.table = df'
    /\ (pc' = "loop" /\ pc # "loop") => pc \in {"start", "sleep"}
    \* a GET is issued inside the fetch of the current entry, before any
    \* file of this entry is opened
    /\ gets' = gets + 1 =>
           pc = "fetch" /\ i >= 1 /\ i' = i /\ ~opened.attempted
    \* a file is opened only after the fetch of the current entry has
    \* returned a table, for that entry, and no GET is issued by that step
    /\ (opened'.attempted /\ ~opened.attempted) =>
           /\ pc = "returned"
           /\ ~df.isNone
           /\ i' = i
           /\ gets' = gets
           /\ opened'.path = SavePath(variant, QUERY_NAMES[i])

\* C13: strictly sequential processing in declaration order.  In every run
\* of main the queries are started in the order of QUERY_CONFIG, each at
\* most once; no GET for the next query is issued before the fetch of the
\* current one has returned and, when it returned a table, its file has
\* been written; and no file is written before or during the fetch of
\* another query.
C13_StrictlySequential == [][StepSequential]_vars

\* the second query is being fetched after the first one's file was written
C13_Witness ==
    /\ pc = "fetch"
    /\ i = 2
    /\ written = 1
    /\ requestSleeps = 1
    /\ gets = 0

----------------------------------------------------------------------------
\* C14: a file is written only for a successful, non-empty fetch.
\* save_data is called for a query only if its fetch_data returned a table,
\* every table fetch_data returns has at least one row, every file written
\* holds at least one data row, and a query whose fetch gave None has
\* opened no file.
C14_ArtifactOnlyForNonEmptyFetch ==
    /\ opened.attempted => ~df.isNone
    /\ (pc = "returned" /\ ~df.isNone) => len(df) >= 1
    /\ (opened.attempted /\ opened.ok) => len(opened.table) >= 1
    /\ (pc = "sleep" /\ df.isNone) => ~opened.attempted

=========================================================================
